---- MODULE Spec2Model ----
(***************************************************************************)
(* Model of the boarding-pass tracker: the BCBP decoder and history merge  *)
(* of reader.py and the dashboard handlers of app.py that write the same   *)
(* store, boarding_passes.json.                                            *)
(*                                                                         *)
(* Representation.  A leg is a record with one field per key of the        *)
(* Python dict.  Text that the code slices, strips or converts             *)
(* (julian_date, flight_number, seat_number) is a tuple of one-character   *)
(* strings; text that is only copied and compared is a TLA+ string.  An    *)
(* optional value is a record [k, d, hm]: k says what the dict holds       *)
(* ("absent": no such key, "null": None, "empty": '', "text": any other    *)
(* string, "datetime": an ISO date-time, "date": a %Y-%m-%d date), d is    *)
(* the day (days since 1 January 2023) or the text's number, hm the        *)
(* minutes after midnight.  json.dump/json.load of such dicts gives back   *)
(* equal dicts, so the store is the list of legs itself.                   *)
(***************************************************************************)
EXTENDS Integers, Sequences, FiniteSets, TLC

VARIABLES
    store,                \* boarding_passes.json: the persisted list of legs
    today,                \* the wall clock read by datetime.now()
    edits,                \* number of dashboard requests served so far
    scanned,              \* what each image file held at the last scan run
    last_run_day,         \* day of the last scan run, -1 once the store was changed after it
    rerun,                \* TRUE when the last scan run repeated an unchanged run on a later day
    existing_data,        \* update_flight_database: the store as it was loaded
    new_flights,          \* update_flight_database: its first argument
    processed_files_list, \* update_flight_database: its second argument
    called,               \* TRUE once update_flight_database has returned
    all_flights,          \* the chaining step: the decoded legs in encoding order
    sorted_flights,       \* the chaining step: its result
    chained,              \* TRUE once the chaining step has returned
    pc,                   \* concurrent writers: where each one is
    loaded,               \* concurrent writers: the list each one loaded
    request,              \* concurrent writers: what each one was asked to do
    initial_store,        \* concurrent writers: the store before any of them began
    data_string,          \* the decoder: the text read from the barcode
    outcome,              \* the decoder: what parse_boarding_pass gave for it
    day_code,             \* the date resolver: the day-of-year code
    resolved              \* the date resolver: the day it resolved the code to

vars == <<store, today, edits, scanned, last_run_day, rerun, existing_data, new_flights,
          processed_files_list, called, all_flights, sorted_flights, chained,
          pc, loaded, request, initial_store,
          data_string, outcome, day_code, resolved>>

(***************************************************************************)
(* Bounds of the model.                                                    *)
(***************************************************************************)
MaxStore == 3
MaxEdits == 2
MaxExisting == 3
MaxChain == 3

(***************************************************************************)
(* Optional values.                                                        *)
(***************************************************************************)
Absent == [k |-> "absent", d |-> 0, hm |-> 0]
Null == [k |-> "null", d |-> 0, hm |-> 0]
Empty == [k |-> "empty", d |-> 0, hm |-> 0]
Text(n) == [k |-> "text", d |-> n, hm |-> 0]
IsoDateTime(day, minutes) == [k |-> "datetime", d |-> day, hm |-> minutes]
IsoDate(day) == [k |-> "date", d |-> day, hm |-> 0]

\* Python truth of dict.get(key): a missing key, None and '' are false.
Truthy(v) == v.k \notin {"absent", "null", "empty"}

\* dict.get(key): a missing key reads as None.
Get(v) == IF v.k = "absent" THEN Null ELSE v

(***************************************************************************)
(* Calendar: days are counted from 1 January 2023.                         *)
(***************************************************************************)
IsLeap(y) == (y % 4 = 0 /\ y % 100 # 0) \/ y % 400 = 0

DaysInYear(y) == IF IsLeap(y) THEN 366 ELSE 365

RECURSIVE Jan1(_)
\* datetime(y, 1, 1) as a day number.
Jan1(y) ==
    IF y = 2023 THEN 0
    ELSE IF y > 2023 THEN Jan1(y - 1) + DaysInYear(y - 1)
    ELSE Jan1(y + 1) - DaysInYear(y)

RECURSIVE YearFrom(_, _)
YearFrom(day, y) ==
    IF day < Jan1(y) THEN YearFrom(day, y - 1)
    ELSE IF day >= Jan1(y + 1) THEN YearFrom(day, y + 1)
    ELSE y

\* datetime.year of a day number.
YearOf(day) == YearFrom(day, 2023)

\* tm_yday of a day number, 1..366.
DayOfYear(day) == day - Jan1(YearOf(day)) + 1

(***************************************************************************)
(* Text helpers.                                                           *)
(***************************************************************************)
Digits == <<"0", "1", "2", "3", "4", "5", "6", "7", "8", "9">>

IsDigit(c) == \E i \in 1..10 : Digits[i] = c

DigitVal(c) == (CHOOSE i \in 1..10 : Digits[i] = c) - 1

AllDigits(s) == \A i \in 1..Len(s) : IsDigit(s[i])

RECURSIVE IntOf(_)
\* int(s) of a non-empty all-digit text.
IntOf(s) ==
    IF Len(s) = 0 THEN 0
    ELSE 10 * IntOf(SubSeq(s, 1, Len(s) - 1)) + DigitVal(s[Len(s)])

RECURSIVE LStripZeros(_)
\* str.lstrip('0 '): drop leading zeros and blanks.
LStripZeros(s) ==
    IF Len(s) > 0 /\ s[1] \in {"0", " "} THEN LStripZeros(Tail(s)) ELSE s

\* str(int(s)) of an all-digit text: no leading zeros, "0" for zero.
StrOfInt(s) == IF LStripZeros(s) = <<>> THEN <<"0">> ELSE LStripZeros(s)

(***************************************************************************)
(* Optional decoded text (ticket and frequent-flyer fields): no key, or    *)
(* the text.                                                               *)
(***************************************************************************)
NoText == <<>>
SomeText(s) == <<s>>

(***************************************************************************)
(* parse_boarding_pass, reader.py.  A payload is given by what the header  *)
(* slices and the leg pattern's matches yield:                             *)
(*   passenger_name, confirmation_number: the header fields,               *)
(*   blocks: the matches of leg_pattern in encoding order, each with the   *)
(*     route/carrier block already cut into origin, destination, carrier,  *)
(*     the flight-number token and the 12-character details block,         *)
(*   conditional: the whitespace-separated tokens after the first '>'      *)
(*     (<<>> when there is none).                                          *)
(***************************************************************************)
RollbackDays == 180

\* The clock: day is the date of datetime.now(), late says whether the time
\* of day is after 00:00:00.000000.
Now(day, late) == [day |-> day, late |-> late]

\* (departure_date - today).days with departure_date at midnight: timedelta
\* rounds towards minus infinity.
DaysUntil(day, now) == day - now.day - (IF now.late THEN 1 ELSE 0)

\* Mutant of departure_date: the code's days are added without the -1.
departure_date_off_by_one(julian_date, now) ==
    LET year == YearOf(now.day)
        candidate == Jan1(year) + julian_date
    IN  IF DaysUntil(candidate, now) > RollbackDays
        THEN Jan1(year - 1) + julian_date
        ELSE candidate

\* Lines 58-66: the day the day-of-year code julian_date stands for.
departure_date(julian_date, now) ==
    LET year == YearOf(now.day)
        candidate == Jan1(year) + julian_date - 1
    IN  IF DaysUntil(candidate, now) > RollbackDays
        THEN Jan1(year - 1) + julian_date - 1
        ELSE candidate

First == {"F", "A"}
Business == {"J", "C", "D", "I"}
PremiumEconomy == {"W", "P"}
Economy == {"Y", "S", "B", "H", "K", "L", "M", "N"}

\* Lines 94-102: cabin_map.get(cabin_code, f"Unknown Code ({cabin_code})").
cabin_map(cabin_code) ==
    IF cabin_code \in First THEN "First"
    ELSE IF cabin_code \in Business THEN "Business"
    ELSE IF cabin_code \in PremiumEconomy THEN "Premium Economy"
    ELSE IF cabin_code \in Economy THEN "Economy"
    ELSE "Unknown Code (" \o cabin_code \o ")"

\* Mutant of LegRaises: the ValueError of int(julian_date_str) is not caught.
LegRaises_on_date(block) ==
    \/ ~AllDigits(SubSeq(block.details_block, 1, 3))
    \/ ~AllDigits(SubSeq(block.details_block, 5, 7))
    \/ ~AllDigits(SubSeq(block.details_block, 9, 12))

\* Lines 104-108: int() of the seat row and of the sequence number raises
\* ValueError on a character that is no digit; nothing catches it.
LegRaises(block) ==
    \/ ~AllDigits(SubSeq(block.details_block, 5, 7))
    \/ ~AllDigits(SubSeq(block.details_block, 9, 12))

\* Lines 43-110: the leg record of one match.
flight_data(payload, block, now) ==
    LET julian_date_str == SubSeq(block.details_block, 1, 3)
        dated == AllDigits(julian_date_str)
        day == departure_date(IntOf(julian_date_str), now)
        seat_str == SubSeq(block.details_block, 5, 8)
    IN  [passenger_name |-> payload.passenger_name,
         confirmation_number |-> payload.confirmation_number,
         is_skiplagged |-> FALSE,
         origin |-> block.origin,
         destination |-> block.destination,
         carrier |-> block.carrier,
         flight_number |-> LStripZeros(block.flight_number_str),
         julian_date |-> julian_date_str,
         scheduled_departure_time |-> IF dated THEN IsoDateTime(day, 0) ELSE Null,
         scheduled_arrival_time |-> Null,
         actual_departure_time |-> Null,
         actual_arrival_time |-> Null,
         scheduled_departure_date |-> IF dated THEN IsoDate(day) ELSE Null,
         cabin |-> cabin_map(block.details_block[4]),
         seat_number |-> StrOfInt(SubSeq(seat_str, 1, 3)) \o <<seat_str[4]>>,
         sequence_number |-> IntOf(SubSeq(block.details_block, 9, 12)),
         ticket_number |-> NoText,
         frequent_flyer_airline |-> NoText,
         frequent_flyer_number |-> NoText,
         flightera_link |-> Absent,
         source_file |-> ""]

\* Lines 117-120: the first token '2A' + digits, without '2A' and without
\* its last character.
TicketTokens(parts) ==
    {i \in 1..Len(parts) :
        /\ Len(parts[i]) > 2
        /\ SubSeq(parts[i], 1, 2) = <<"2", "A">>
        /\ AllDigits(SubSeq(parts[i], 3, Len(parts[i])))}

\* Lines 122-127: the first token equal to the first leg's carrier whose
\* second successor is all digits and longer than 5.
FrequentFlyerTokens(parts, carrier) ==
    {i \in 1..Len(parts) :
        /\ parts[i] = carrier
        /\ i + 2 <= Len(parts)
        /\ Len(parts[i + 2]) > 5
        /\ AllDigits(parts[i + 2])}

Min(S) == CHOOSE x \in S : \A y \in S : x <= y

\* Lines 112-127: the conditional data goes to all_flights[0], the first
\* leg in encoding order.
conditional_data(flights, parts) ==
    LET tickets == TicketTokens(parts)
        ffs == FrequentFlyerTokens(parts, flights[1].carrier)
        part == parts[Min(tickets)]
        first == [flights[1] EXCEPT
            !.ticket_number =
                IF tickets = {} THEN @
                ELSE SomeText(SubSeq(part, 3, Len(part) - 1)),
            !.frequent_flyer_airline =
                IF ffs = {} THEN @ ELSE SomeText(parts[Min(ffs)]),
            !.frequent_flyer_number =
                IF ffs = {} THEN @ ELSE SomeText(parts[Min(ffs) + 2])]
    IN  IF Len(flights) = 0 THEN flights
        ELSE [flights EXCEPT ![1] = first]

(***************************************************************************)
(* The chaining step, lines 133-174.                                       *)
(***************************************************************************)
\* list.remove of the element found at position i.
RemoveAt(s, i) == SubSeq(s, 1, i - 1) \o SubSeq(s, i + 1, Len(s))

\* Mutant of StartIndex: the chain starts with the first encoded leg.
StartIndex_first(flights) == 1

\* Lines 139-149: the first leg whose origin is no leg's destination, else
\* the first leg.
StartIndex(flights) ==
    LET all_destinations == {flights[i].destination : i \in 1..Len(flights)}
        starts == {i \in 1..Len(flights) : flights[i].origin \notin all_destinations}
    IN  IF starts = {} THEN 1 ELSE Min(starts)

RECURSIVE BuildChain_dropping(_, _)
\* Mutant of BuildChain: when no leg connects, what remains is left out.
BuildChain_dropping(sorted, remaining) ==
    IF remaining = <<>> THEN sorted
    ELSE LET current_dest == sorted[Len(sorted)].destination
             next == {i \in 1..Len(remaining) : remaining[i].origin = current_dest}
         IN  IF next # {}
             THEN BuildChain_dropping(Append(sorted, remaining[Min(next)]),
                                      RemoveAt(remaining, Min(next)))
             ELSE sorted

RECURSIVE Reverse(_)
Reverse(s) == IF s = <<>> THEN <<>> ELSE Append(Reverse(Tail(s)), Head(s))

RECURSIVE BuildChain_reversing(_, _)
\* Mutant of BuildChain: when no leg connects, what remains is appended
\* last leg first.
BuildChain_reversing(sorted, remaining) ==
    IF remaining = <<>> THEN sorted
    ELSE LET current_dest == sorted[Len(sorted)].destination
             next == {i \in 1..Len(remaining) : remaining[i].origin = current_dest}
         IN  IF next # {}
             THEN BuildChain_reversing(Append(sorted, remaining[Min(next)]),
                                       RemoveAt(remaining, Min(next)))
             ELSE sorted \o Reverse(remaining)

RECURSIVE BuildChain(_, _)
\* Lines 155-169: append the first remaining leg that leaves from the last
\* destination; when there is none, append what remains and stop.
BuildChain(sorted, remaining) ==
    IF remaining = <<>> THEN sorted
    ELSE LET current_dest == sorted[Len(sorted)].destination
             next == {i \in 1..Len(remaining) : remaining[i].origin = current_dest}
         IN  IF next # {}
             THEN BuildChain(Append(sorted, remaining[Min(next)]),
                             RemoveAt(remaining, Min(next)))
             ELSE sorted \o remaining

\* Line 174: parse_boarding_pass returns the list of legs and nothing else;
\* lines 135-172 put no status on the list or on a leg, and line 172 prints
\* the same message however the chain was built.
status_flag(flights) == "none"

\* Lines 135-171.
SortFlights(flights) ==
    IF Len(flights) > 1
    THEN BuildChain(<<flights[StartIndex(flights)]>>,
                    RemoveAt(flights, StartIndex(flights)))
    ELSE flights

\* Mutant of ParseRaises: the test of line 129 is left out.
ParseRaises_legs_only(payload) ==
    \E i \in 1..Len(payload.blocks) : LegRaises(payload.blocks[i])

\* Lines 42-110 raise when a leg raises; line 129 raises when nothing matched.
ParseRaises(payload) ==
    \/ Len(payload.blocks) = 0
    \/ \E i \in 1..Len(payload.blocks) : LegRaises(payload.blocks[i])

\* parse_boarding_pass of a payload that does not raise.
parse_boarding_pass(payload, now) ==
    SortFlights(conditional_data(
        [i \in 1..Len(payload.blocks) |-> flight_data(payload, payload.blocks[i], now)],
        payload.conditional))

\* No decode was asked for yet.
Pending == [kind |-> "pending", flights |-> <<>>]

\* No date was asked for yet.
NotResolved == [done |-> FALSE, day |-> 0]

\* The decoder and the date resolver at rest.
IdleDecoder ==
    /\ data_string = <<>>
    /\ outcome = Pending
    /\ day_code = 0
    /\ resolved = NotResolved

(***************************************************************************)
(* update_flight_database, reader.py lines 337-405.                        *)
(***************************************************************************)
\* Lines 372 and 379: the f-string key.  Its three parts are kept apart: no
\* text of the model holds the '-' that joins them.
Key(flight) ==
    <<flight.confirmation_number, flight.flight_number, flight.julian_date>>

\* Mutant of preserved_flights: nothing is dropped.
preserved_flights_all(existing, processed) == existing

\* Mutant of preserved_flights: the test is the wrong way round.
preserved_flights_inverted(existing, processed) ==
    SelectSeq(existing, LAMBDA flight : flight.source_file \in processed)

\* Lines 363-366.
preserved_flights(existing, processed) ==
    SelectSeq(existing, LAMBDA flight : flight.source_file \notin processed)

\* Mutant of existing_lookup: the dict keeps the first leg stored under a
\* key.
existing_lookup_first(existing, key) ==
    LET hits == {i \in 1..Len(existing) :
                    Key(existing[i]) = key /\ existing[i].julian_date # <<>>}
    IN  IF hits = {} THEN 0 ELSE CHOOSE i \in hits : \A j \in hits : i <= j

\* Lines 369-375: the dict keeps, for each key, the last leg stored under
\* it; legs with an empty julian_date are left out.  0 when the key is not
\* in the dict.
existing_lookup(existing, key) ==
    LET hits == {i \in 1..Len(existing) :
                    Key(existing[i]) = key /\ existing[i].julian_date # <<>>}
    IN  IF hits = {} THEN 0 ELSE CHOOSE i \in hits : \A j \in hits : j <= i

\* Mutant of merge_flight: the persisted record is kept as it is.
merge_flight_keep_existing(new_flight, existing_flight) ==
    [existing_flight EXCEPT !.source_file = new_flight.source_file]

\* Mutant of merge_flight: the persisted values are copied whether present
\* or not.
merge_flight_unconditional(new_flight, existing_flight) ==
    [new_flight EXCEPT
        !.scheduled_departure_time = existing_flight.scheduled_departure_time,
        !.scheduled_departure_date = existing_flight.scheduled_departure_date,
        !.is_skiplagged = existing_flight.is_skiplagged,
        !.flightera_link = existing_flight.flightera_link,
        !.actual_departure_time = existing_flight.actual_departure_time,
        !.scheduled_arrival_time = existing_flight.scheduled_arrival_time,
        !.actual_arrival_time = existing_flight.actual_arrival_time]

\* Mutant of merge_flight: the persisted dates are not kept.
merge_flight_no_dates(new_flight, existing_flight) ==
    [new_flight EXCEPT
        !.is_skiplagged = existing_flight.is_skiplagged,
        !.flightera_link =
            IF Truthy(existing_flight.flightera_link)
            THEN existing_flight.flightera_link ELSE @,
        !.actual_departure_time =
            IF Truthy(existing_flight.actual_departure_time)
            THEN existing_flight.actual_departure_time ELSE @,
        !.scheduled_arrival_time =
            IF Truthy(existing_flight.scheduled_arrival_time)
            THEN existing_flight.scheduled_arrival_time ELSE @,
        !.actual_arrival_time =
            IF Truthy(existing_flight.actual_arrival_time)
            THEN existing_flight.actual_arrival_time ELSE @]

\* Lines 384-399: what an existing leg gives to the new leg with its key.
merge_flight(new_flight, existing_flight) ==
    [new_flight EXCEPT
        !.scheduled_departure_time =
            IF Truthy(existing_flight.scheduled_departure_time)
            THEN existing_flight.scheduled_departure_time ELSE @,
        !.scheduled_departure_date =
            IF Truthy(existing_flight.scheduled_departure_date)
            THEN existing_flight.scheduled_departure_date ELSE @,
        !.is_skiplagged = existing_flight.is_skiplagged,
        !.flightera_link =
            IF Truthy(existing_flight.flightera_link)
            THEN existing_flight.flightera_link ELSE @,
        !.actual_departure_time =
            IF Truthy(existing_flight.actual_departure_time)
            THEN existing_flight.actual_departure_time ELSE @,
        !.scheduled_arrival_time =
            IF Truthy(existing_flight.scheduled_arrival_time)
            THEN existing_flight.scheduled_arrival_time ELSE @,
        !.actual_arrival_time =
            IF Truthy(existing_flight.actual_arrival_time)
            THEN existing_flight.actual_arrival_time ELSE @]

\* Lines 378-399.
merged_flight(new_flight, existing) ==
    IF existing_lookup(existing, Key(new_flight)) = 0 THEN new_flight
    ELSE merge_flight(new_flight, existing[existing_lookup(existing, Key(new_flight))])

\* Mutant of update_flight_database: the new legs are written first.
update_flight_database_new_first(existing, new, processed) ==
    [i \in 1..Len(new) |-> merged_flight(new[i], existing)]
        \o preserved_flights(existing, processed)

\* Mutant of update_flight_database: a persisted leg with the key of a new
\* leg is replaced by it.
update_flight_database_replacing(existing, new, processed) ==
    SelectSeq(preserved_flights(existing, processed),
              LAMBDA flight : \A i \in 1..Len(new) : Key(flight) # Key(new[i]))
        \o [i \in 1..Len(new) |-> merged_flight(new[i], existing)]

\* Lines 347-405: the list written to boarding_passes.json.
update_flight_database(existing, new, processed) ==
    preserved_flights(existing, processed)
        \o [i \in 1..Len(new) |-> merged_flight(new[i], existing)]

(***************************************************************************)
(* The dashboard handlers of app.py.                                       *)
(***************************************************************************)
LowerCase == <<"a", "b", "c", "d", "e", "f", "g", "h", "i", "j", "k", "l", "m",
               "n", "o", "p", "q", "r", "s", "t", "u", "v", "w", "x", "y", "z">>
UpperCase == <<"A", "B", "C", "D", "E", "F", "G", "H", "I", "J", "K", "L", "M",
               "N", "O", "P", "Q", "R", "S", "T", "U", "V", "W", "X", "Y", "Z">>

\* str.upper().
Upper(s) ==
    [i \in 1..Len(s) |->
        IF \E n \in 1..26 : LowerCase[n] = s[i]
        THEN UpperCase[CHOOSE n \in 1..26 : LowerCase[n] = s[i]]
        ELSE s[i]]

\* The text 'unknown' of the flight id.
Unknown == [k |-> "unknown", d |-> 0, hm |-> 0]

\* Lines 19-27: the date of an ISO date-time or date; None for None, '' and
\* for text datetime.fromisoformat rejects.
extract_date_from_datetime(datetime_str) ==
    IF datetime_str.k \in {"datetime", "date"} THEN IsoDate(datetime_str.d) ELSE Null

\* Lines 90-91 and 167-168: the id the dashboard gives a flight.
flight_id(flight) ==
    LET extracted == extract_date_from_datetime(flight.scheduled_departure_time)
        departure_date_ ==
            IF Truthy(extracted) THEN extracted
            ELSE Get(flight.scheduled_departure_date)
    IN  <<flight.confirmation_number, flight.flight_number,
          IF Truthy(departure_date_) THEN departure_date_ ELSE Unknown>>

\* The first flight of the list with this id, 0 when there is none.
FindFlight(flights, id) ==
    LET hits == {i \in 1..Len(flights) : flight_id(flights[i]) = id}
    IN  IF hits = {} THEN 0 ELSE Min(hits)

\* Lines 85-102: the list toggle_skiplag saves for a flight it finds.
toggle_skiplag(flights, id) ==
    [flights EXCEPT ![FindFlight(flights, id)].is_skiplagged = ~@]

\* Lines 119-148: the list add_flight saves.
add_flight(flights, new_flight_data) ==
    Append(flights,
        [passenger_name |-> Upper(new_flight_data.passenger_name),
         confirmation_number |-> Upper(new_flight_data.confirmation_number),
         carrier |-> Upper(new_flight_data.carrier),
         flight_number |-> new_flight_data.flight_number,
         origin |-> Upper(new_flight_data.origin),
         destination |-> Upper(new_flight_data.destination),
         seat_number |-> Upper(new_flight_data.seat_number),
         cabin |-> new_flight_data.cabin,
         sequence_number |-> 999,
         source_file |-> "Manual Entry",
         is_skiplagged |-> FALSE,
         julian_date |-> <<"0", "0", "0">>,
         flightera_link |-> Get(new_flight_data.flightera_link),
         scheduled_departure_time |-> Get(new_flight_data.scheduled_departure_time),
         actual_departure_time |-> Get(new_flight_data.actual_departure_time),
         scheduled_arrival_time |-> Get(new_flight_data.scheduled_arrival_time),
         actual_arrival_time |-> Get(new_flight_data.actual_arrival_time),
         scheduled_departure_date |-> Absent,
         ticket_number |-> NoText,
         frequent_flyer_airline |-> NoText,
         frequent_flyer_number |-> NoText])

\* Lines 177-193: the list update_flight saves for a flight it finds.  In
\* update_data a code field is NoText and a time or link field is Absent
\* when the request does not hold the key.
update_flight(flights, id, update_data) ==
    [flights EXCEPT ![FindFlight(flights, id)] =
        [@ EXCEPT
            !.carrier =
                IF update_data.carrier = NoText THEN @
                ELSE Upper(update_data.carrier[1]),
            !.flight_number =
                IF update_data.flight_number = NoText THEN @
                ELSE update_data.flight_number[1],
            !.origin =
                IF update_data.origin = NoText THEN @
                ELSE Upper(update_data.origin[1]),
            !.destination =
                IF update_data.destination = NoText THEN @
                ELSE Upper(update_data.destination[1]),
            !.scheduled_departure_time =
                IF update_data.scheduled_departure_time = Absent THEN @
                ELSE update_data.scheduled_departure_time,
            !.actual_departure_time =
                IF update_data.actual_departure_time = Absent THEN @
                ELSE update_data.actual_departure_time,
            !.scheduled_arrival_time =
                IF update_data.scheduled_arrival_time = Absent THEN @
                ELSE update_data.scheduled_arrival_time,
            !.actual_arrival_time =
                IF update_data.actual_arrival_time = Absent THEN @
                ELSE update_data.actual_arrival_time,
            !.flightera_link =
                IF update_data.flightera_link = Absent THEN @
                ELSE update_data.flightera_link]]

(***************************************************************************)
(* parse_boarding_pass on the text of the barcode, reader.py lines 26-131: *)
(* the header slices, the matches of leg_pattern and the tokens after '>'. *)
(* The blank is the only white-space character of the model's texts.       *)
(***************************************************************************)
\* What one match of leg_pattern gives (lines 48-55).
Block(origin, destination, carrier, flight_number_str, details_block) ==
    [origin |-> origin, destination |-> destination, carrier |-> carrier,
     flight_number_str |-> flight_number_str, details_block |-> details_block]

\* The Python slice s[a:b].
Slice(s, a, b) ==
    LET stop == IF b < Len(s) THEN b ELSE Len(s)
    IN  IF a >= stop THEN <<>> ELSE SubSeq(s, a + 1, stop)

RECURSIVE LStrip(_)
LStrip(s) == IF Len(s) > 0 /\ s[1] = " " THEN LStrip(Tail(s)) ELSE s

RECURSIVE RStrip(_)
RStrip(s) ==
    IF Len(s) > 0 /\ s[Len(s)] = " " THEN RStrip(SubSeq(s, 1, Len(s) - 1)) ELSE s

\* str.strip().
Strip(s) == LStrip(RStrip(s))

\* Lines 28-36: data_string[0] and data_string[1] raise IndexError on a text
\* of fewer than two characters, int() raises ValueError on a character that
\* is no digit, pnr_field[0] raises IndexError when data_string[22:29] is
\* empty; the slices themselves never raise.
HeaderRaises(s) ==
    \/ Len(s) < 2
    \/ ~IsDigit(s[2])
    \/ Slice(s, 22, 29) = <<>>

\* Lines 31-34.
common_data(s) ==
    [passenger_name |-> Strip(Slice(s, 2, 22)),
     confirmation_number |-> Strip(Tail(Slice(s, 22, 29)))]

\* The character classes of leg_pattern (line 40) and of str.split.
InClass(c, class) ==
    CASE class = "space" -> c = " "
      [] class = "alnum" -> IsDigit(c) \/ \E n \in 1..26 : UpperCase[n] = c
      [] class = "word" -> c # " "

RECURSIVE Run(_, _, _)
\* How many characters of the class stand in a row from position p on.
Run(s, p, class) ==
    IF p > Len(s) \/ ~InClass(s[p], class) THEN 0
    ELSE 1 + Run(s, p + 1, class)

\* Where the parts of a match of leg_pattern that starts at p stand:
\* [A-Z0-9]{8}, white space, [0-9A-Z]{1,5}, white space, [A-Z0-9]{12,13}.
\* Each white-space run and the flight-number token end where the next part
\* begins, so they are whole runs; the details block takes 13 characters
\* when there are that many.
MatchAt(s, p) ==
    LET token == p + 8 + Run(s, p + 8, "space")
        token_len == Run(s, token, "alnum")
        details == token + token_len + Run(s, token + token_len, "space")
        details_run == Run(s, details, "alnum")
    IN  [found |-> /\ Run(s, p, "alnum") >= 8
                   /\ token > p + 8
                   /\ token_len \in 1..5
                   /\ details > token + token_len
                   /\ details_run >= 12,
         token |-> token, token_len |-> token_len, details |-> details,
         details_len |-> IF details_run > 12 THEN 13 ELSE 12]

RECURSIVE finditer(_, _)
\* Line 42: the matches of leg_pattern from position p on, left to right,
\* none overlapping another; lines 48-55: what each match gives.
finditer(s, p) ==
    IF p > Len(s) THEN <<>>
    ELSE LET m == MatchAt(s, p)
         IN  IF m.found
             THEN <<Block(SubSeq(s, p, p + 2), SubSeq(s, p + 3, p + 5),
                          Strip(SubSeq(s, p + 6, p + 7)),
                          SubSeq(s, m.token, m.token + m.token_len - 1),
                          SubSeq(s, m.details, m.details + m.details_len - 1))>>
                  \o finditer(s, m.details + m.details_len)
             ELSE finditer(s, p + 1)

RECURSIVE Split(_, _)
\* str.split(): the words of s from position p on.
Split(s, p) ==
    IF p > Len(s) THEN <<>>
    ELSE IF s[p] = " " THEN Split(s, p + 1)
    ELSE <<SubSeq(s, p, p + Run(s, p, "word") - 1)>> \o Split(s, p + Run(s, p, "word"))

\* Lines 113-115: the words after the first '>', none when there is no '>'.
conditional_parts(s) ==
    LET marks == {i \in 1..Len(s) : s[i] = ">"}
    IN  IF marks = {} THEN <<>> ELSE Split(s, Min(marks) + 1)

\* The payload a text stands for when its header does not raise.
RawPayload(s) ==
    [passenger_name |-> common_data(s).passenger_name,
     confirmation_number |-> common_data(s).confirmation_number,
     blocks |-> finditer(s, 1),
     conditional |-> conditional_parts(s)]

\* What parse_boarding_pass does with a text.
Failure(kind) == [kind |-> kind, flights |-> <<>>]

\* parse_boarding_pass(data_string) when datetime.now() gives now: the
\* ValueError of line 36 ("header"), the ValueError of int() in lines 105
\* and 108 ("leg"), the ValueError of line 131 ("no legs"), or the list
\* ("legs").
decode(s, now) ==
    IF HeaderRaises(s) THEN Failure("header")
    ELSE IF ParseRaises(RawPayload(s))
         THEN IF \E i \in 1..Len(finditer(s, 1)) : LegRaises(finditer(s, 1)[i])
              THEN Failure("leg")
              ELSE Failure("no legs")
    ELSE [kind |-> "legs", flights |-> parse_boarding_pass(RawPayload(s), now)]

\* The text of PayloadP1: format code, one leg, name DOE, e-ticket mark and
\* booking ABC, the leg block from position 31, the details from 45.
RawP1 ==
    <<"M", "1", "D", "O", "E", " ", " ", " ", " ", " ", " ", " ", " ", " ",
      " ", " ", " ", " ", " ", " ", " ", " ", "E", "A", "B", "C", " ", " ",
      " ", " ", "S", "F", "O", "T", "L", "V", "U", "A", " ", "0", "9", "5",
      "4", " ", "1", "8", "3", "Y", "0", "1", "2", "A", "0", "0", "0", "5",
      " ", "1", "0", "0">>

\* The text of PayloadP2: leg blocks from 31 and 58, details from 45 and 72,
\* the conditional part after '>'.
RawP2 ==
    <<"M", "2", "D", "O", "E", " ", " ", " ", " ", " ", " ", " ", " ", " ",
      " ", " ", " ", " ", " ", " ", " ", " ", "E", "X", "Y", "Z", " ", " ",
      " ", " ", "J", "F", "K", "T", "L", "V", "L", "H", " ", "0", "4", "0",
      "0", " ", "3", "6", "0", "J", "0", "0", "1", "C", "0", "0", "1", "0",
      " ", "S", "F", "O", "J", "F", "K", "U", "A", " ", "0", "0", "1", "6",
      " ", "3", "6", "0", "J", "0", "0", "2", "D", "0", "0", "1", "1", " ",
      ">", "2", "A", "0", "1", "6", "7", " ", "L", "H", " ", "X", " ", "1",
      "2", "3", "4", "5", "6">>

\* A text of 23 characters: no name and no booking field, the leg block
\* from position 1.
RawShort ==
    <<"M", "1", "S", "F", "O", "T", "L", "V", " ", "1", " ", "1", "8", "3",
      "Y", "0", "1", "2", "A", "0", "0", "0", "5">>

(***************************************************************************)
(* The passes directory and the scan run, reader.py main and               *)
(* process_image.  A directory gives each image file what it holds:        *)
(* "none" (no such file), "bad" (no barcode can be read from it) or the    *)
(* name of the payload its barcode holds.                                  *)
(***************************************************************************)
\* glob lists the extensions in the order of supported_extensions (line
\* 297): *.png before *.jpg.
ImageFiles == <<"a.png", "b.jpg">>

SFO == <<"S", "F", "O">>
JFK == <<"J", "F", "K">>
TLV == <<"T", "L", "V">>

\* One passenger, one leg SFO-TLV on UA 954, day 183.
PayloadP1 ==
    [passenger_name |-> <<"D", "O", "E">>,
     confirmation_number |-> <<"A", "B", "C">>,
     blocks |-> <<Block(SFO, TLV, <<"U", "A">>, <<"0", "9", "5", "4">>,
                    <<"1", "8", "3", "Y", "0", "1", "2", "A", "0", "0", "0", "5">>)>>,
     conditional |-> <<>>]

\* Two legs encoded JFK-TLV before SFO-JFK, day 360, with a ticket number
\* and a frequent-flyer number of the first encoded leg's carrier.
PayloadP2 ==
    [passenger_name |-> <<"D", "O", "E">>,
     confirmation_number |-> <<"X", "Y", "Z">>,
     blocks |-> <<Block(JFK, TLV, <<"L", "H">>, <<"0", "4", "0", "0">>,
                    <<"3", "6", "0", "J", "0", "0", "1", "C", "0", "0", "1", "0">>),
                  Block(SFO, JFK, <<"U", "A">>, <<"0", "0", "1", "6">>,
                    <<"3", "6", "0", "J", "0", "0", "2", "D", "0", "0", "1", "1">>)>>,
     conditional |-> <<<<"2", "A", "0", "1", "6", "7">>, <<"L", "H">>, <<"X">>,
                       <<"1", "2", "3", "4", "5", "6">>>>]

\* The second passenger of P1's booking: same confirmation code, flight and
\* day, another name and seat.
PayloadP3 ==
    [passenger_name |-> <<"R", "O", "E">>,
     confirmation_number |-> <<"A", "B", "C">>,
     blocks |-> <<Block(SFO, TLV, <<"U", "A">>, <<"0", "9", "5", "4">>,
                    <<"1", "8", "3", "Y", "0", "1", "2", "B", "0", "0", "0", "6">>)>>,
     conditional |-> <<>>]

\* P1 with a seat row that is no number: int() raises at line 105.
PayloadP4 ==
    [PayloadP1 EXCEPT
        !.blocks = <<Block(SFO, TLV, <<"U", "A">>, <<"0", "9", "5", "4">>,
                       <<"1", "8", "3", "Y", "X", "1", "2", "A", "0", "0", "0", "5">>)>>]

Payload(name) ==
    CASE name = "P1" -> PayloadP1
      [] name = "P2" -> PayloadP2
      [] name = "P3" -> PayloadP3
      [] name = "P4" -> PayloadP4

\* "P5": a barcode text cut short, the first 20 characters of RawP1; the
\* header parse of lines 28-36 raises on it.
CutText == Slice(RawP1, 0, 20)

\* What the two image files can hold.
Directories ==
    {[f \in {"a.png", "b.jpg"} |-> IF f = "a.png" THEN a ELSE b] :
        a \in {"none", "bad", "P1", "P2"}, b \in {"none", "P3"}}

NoDirectory == [f \in {"a.png", "b.jpg"} |-> "none"]

\* Lines 301-302: the files found.
image_files(dir) == SelectSeq(ImageFiles, LAMBDA f : dir[f] # "none")

\* The days on which the model's runs happen: 29 February 2024 and
\* 10 January 2025, both after midnight.
RunDays == {Now(Jan1(2024) + 59, TRUE), Now(Jan1(2025) + 9, TRUE)}

\* parse_boarding_pass of the model's payloads on the model's days,
\* evaluated once.
Parsed ==
    [name \in {"P1", "P2", "P3", "P4", "P5"}, now \in RunDays |->
        IF name = "P5" THEN decode(CutText, now).flights
        ELSE IF ParseRaises(Payload(name)) THEN <<>>
        ELSE parse_boarding_pass(Payload(name), now)]

\* Lines 209-275: the legs of one image, each tagged with the file's name;
\* <<>> for the None of an image that gives no legs: one that cannot be
\* read or shows no barcode ("bad", lines 215-216, 223-225 and 261-263) and
\* one whose text parse_boarding_pass raises on (lines 273-275).
process_image(dir, f, now) ==
    IF dir[f] = "bad" THEN <<>>
    ELSE [i \in 1..Len(Parsed[dir[f], now]) |->
            [Parsed[dir[f], now][i] EXCEPT !.source_file = f]]

RECURSIVE all_passes_data_stopping(_, _, _)
\* Mutant of all_passes_data: the loop ends at the first image that gives
\* no legs.
all_passes_data_stopping(dir, files, now) ==
    IF files = <<>> \/ process_image(dir, Head(files), now) = <<>> THEN <<>>
    ELSE process_image(dir, Head(files), now)
            \o all_passes_data_stopping(dir, Tail(files), now)

RECURSIVE all_passes_data(_, _, _)
\* Lines 309-313: the legs of all images, in the order of the files.
all_passes_data(dir, files, now) ==
    IF files = <<>> THEN <<>>
    ELSE process_image(dir, Head(files), now) \o all_passes_data(dir, Tail(files), now)

\* Mutant of processed_files: only the images that gave legs.
processed_files_decoded(dir) ==
    {f \in {"a.png", "b.jpg"} : dir[f] \notin {"none", "bad", "P4", "P5"}}

\* Line 327.
processed_files(dir) == {f \in {"a.png", "b.jpg"} : dir[f] # "none"}

\* Lines 309-335: the list a scan run writes.
main(flights, dir, now) ==
    update_flight_database(flights,
        all_passes_data(dir, image_files(dir), now), processed_files(dir))

(***************************************************************************)
(* What the dashboard's requests hold.                                     *)
(***************************************************************************)
NoUpdate ==
    [carrier |-> NoText, flight_number |-> NoText, origin |-> NoText,
     destination |-> NoText, scheduled_departure_time |-> Absent,
     actual_departure_time |-> Absent, scheduled_arrival_time |-> Absent,
     actual_arrival_time |-> Absent, flightera_link |-> Absent]

\* Requests of update_flight.
UpdateRequests ==
    {[NoUpdate EXCEPT !.carrier = SomeText(<<"l", "h">>)],
     [NoUpdate EXCEPT !.flight_number = SomeText(<<"9", "5", "5">>)],
     [NoUpdate EXCEPT !.origin = SomeText(<<"l", "a", "x">>),
                      !.destination = SomeText(<<"j", "f", "k">>)],
     [NoUpdate EXCEPT !.scheduled_departure_time = IsoDateTime(Jan1(2024) + 182, 510)],
     [NoUpdate EXCEPT !.actual_departure_time = Text(1)],
     [NoUpdate EXCEPT !.scheduled_arrival_time = Text(2),
                      !.actual_arrival_time = Empty],
     [NoUpdate EXCEPT !.flightera_link = Text(3)]}

\* Requests of add_flight.
AddRequests ==
    {[passenger_name |-> <<"d", "o", "e">>, confirmation_number |-> <<"a", "b", "c">>,
      carrier |-> <<"u", "a">>, flight_number |-> <<"9", "5", "4">>,
      origin |-> <<"s", "f", "o">>, destination |-> <<"t", "l", "v">>,
      seat_number |-> <<>>, cabin |-> "Economy",
      flightera_link |-> link, scheduled_departure_time |-> Absent,
      actual_departure_time |-> Absent, scheduled_arrival_time |-> Absent,
      actual_arrival_time |-> Absent] : link \in {Text(3)}}

(***************************************************************************)
(* The tracker: scan runs and dashboard requests, one at a time.           *)
(***************************************************************************)
Idle ==
    /\ existing_data = <<>>
    /\ new_flights = <<>>
    /\ processed_files_list = {}
    /\ called = FALSE
    /\ all_flights = <<>>
    /\ sorted_flights = <<>>
    /\ chained = FALSE
    /\ pc = <<>>
    /\ loaded = <<>>
    /\ request = <<>>
    /\ initial_store = <<>>
    /\ IdleDecoder

Init ==
    /\ store = <<>>
    /\ today \in RunDays
    /\ edits = 0
    /\ scanned = NoDirectory
    /\ last_run_day = -1
    /\ rerun = FALSE
    /\ Idle

others == <<existing_data, new_flights, processed_files_list, called, all_flights,
            sorted_flights, chained, pc, loaded, request, initial_store,
          data_string, outcome, day_code, resolved>>

\* A scan run over the directory dir.  main returns before it writes when
\* the directory holds no image (lines 304-307).
Main(dir) ==
    /\ image_files(dir) # <<>>
    /\ LET final_data == main(store, dir, today)
       IN  Len(final_data) <= MaxStore /\ store' = final_data
    /\ scanned' = dir
    /\ last_run_day' = today.day
    /\ rerun' = (last_run_day # -1 /\ last_run_day < today.day /\ scanned = dir)
    /\ UNCHANGED <<today, edits, others>>

\* POST /api/toggle_skiplag with the id of a stored flight.
ToggleSkiplag(id) ==
    /\ edits < MaxEdits
    /\ FindFlight(store, id) # 0
    /\ store' = toggle_skiplag(store, id)
    /\ edits' = edits + 1
    /\ last_run_day' = -1
    /\ rerun' = FALSE
    /\ UNCHANGED <<today, scanned, others>>

\* POST /api/add_flight.
AddFlight(new_flight_data) ==
    /\ edits < MaxEdits
    /\ Len(store) < MaxStore
    /\ store' = add_flight(store, new_flight_data)
    /\ edits' = edits + 1
    /\ last_run_day' = -1
    /\ rerun' = FALSE
    /\ UNCHANGED <<today, scanned, others>>

\* POST /api/update_flight with the id of a stored flight.
UpdateFlight(id, update_data) ==
    /\ edits < MaxEdits
    /\ FindFlight(store, id) # 0
    /\ store' = update_flight(store, id, update_data)
    /\ edits' = edits + 1
    /\ last_run_day' = -1
    /\ rerun' = FALSE
    /\ UNCHANGED <<today, scanned, others>>

\* Time passes.
Tick ==
    /\ \E later \in RunDays : later.day > today.day /\ today' = later
    /\ UNCHANGED <<store, edits, scanned, last_run_day, rerun, others>>

StoredIds == {flight_id(store[i]) : i \in 1..Len(store)}

ScanRun == \E dir \in Directories : Main(dir)
Toggle == \E id \in StoredIds : ToggleSkiplag(id)
Add == \E new_flight_data \in AddRequests : AddFlight(new_flight_data)
Update == \E id \in StoredIds, update_data \in UpdateRequests : UpdateFlight(id, update_data)

Next == ScanRun \/ Toggle \/ Add \/ Update \/ Tick

Spec == Init /\ [][Next]_vars

(***************************************************************************)
(* update_flight_database on its own: any persisted list the dashboard and *)
(* earlier runs can have left, any scan result, any set of reprocessed     *)
(* sources.                                                                *)
(***************************************************************************)
FirstDay == Now(Jan1(2024) + 59, TRUE)

\* The leg a scan of a.png (P1) stores.
ScannedFirst ==
    process_image([NoDirectory EXCEPT !["a.png"] = "P1"], "a.png", FirstDay)[1]

\* The legs scans of a.png (P1) and of b.jpg (P3) store.
ScannedLegs ==
    {ScannedFirst,
     process_image([NoDirectory EXCEPT !["b.jpg"] = "P3"], "b.jpg", FirstDay)[1]}

\* The scanned legs and the legs add_flight stores.
StoredLegs ==
    ScannedLegs
    \cup {add_flight(<<>>, new_flight_data)[1] : new_flight_data \in AddRequests}

\* Requests of update_flight that set, clear or leave the user's fields.
AllSet ==
    [NoUpdate EXCEPT !.scheduled_departure_time = IsoDateTime(Jan1(2024) + 182, 510),
                     !.actual_departure_time = Text(1),
                     !.scheduled_arrival_time = Text(2),
                     !.actual_arrival_time = Text(4),
                     !.flightera_link = Text(3)]
SomeSet ==
    [NoUpdate EXCEPT !.scheduled_departure_time = Null,
                     !.actual_departure_time = Null,
                     !.actual_arrival_time = Empty,
                     !.flightera_link = Text(3)]
CodesSet ==
    [NoUpdate EXCEPT !.carrier = SomeText(<<"l", "h">>),
                     !.origin = SomeText(<<"l", "a", "x">>)]

\* The stored legs as they are, and the scanned ones after one dashboard
\* request.
PersistedLegs ==
    StoredLegs
    \cup {toggle_skiplag(<<leg>>, flight_id(leg))[1] : leg \in ScannedLegs}
    \cup {update_flight(<<leg>>, flight_id(leg), AllSet)[1] : leg \in ScannedLegs}
    \cup {update_flight(<<ScannedFirst>>, flight_id(ScannedFirst), update_data)[1] :
            update_data \in {SomeSet, CodesSet}}

RECURSIVE SeqsUpTo(_, _)
\* The sequences over S of length at most n.
SeqsUpTo(S, n) ==
    IF n = 0 THEN {<<>>}
    ELSE SeqsUpTo(S, n - 1)
         \cup {Append(q, x) : q \in {r \in SeqsUpTo(S, n - 1) : Len(r) = n - 1}, x \in S}

\* The results of process_image over the model's directories and days.
ScanResults ==
    {all_passes_data(dir, image_files(dir), now) : dir \in Directories, now \in RunDays}

IdleTracker ==
    /\ today = FirstDay
    /\ edits = 0
    /\ scanned = NoDirectory
    /\ last_run_day = -1
    /\ rerun = FALSE

InitMerge ==
    /\ store \in SeqsUpTo(PersistedLegs, MaxExisting)
    /\ IdleTracker
    /\ Idle

\* One call update_flight_database(new, processed_files_list=processed) on
\* the persisted list.
UpdateFlightDatabase(new, processed) ==
    /\ ~called
    /\ store' = update_flight_database(store, new, processed)
    /\ existing_data' = store
    /\ new_flights' = new
    /\ processed_files_list' = processed
    /\ called' = TRUE
    /\ UNCHANGED <<today, edits, scanned, last_run_day, rerun, all_flights,
                   sorted_flights, chained, pc, loaded, request, initial_store,
          data_string, outcome, day_code, resolved>>

NextMerge ==
    \E new \in ScanResults, processed \in SUBSET {"a.png", "b.jpg"} :
        UpdateFlightDatabase(new, processed)

SpecMerge == InitMerge /\ [][NextMerge]_vars

\* The place in the written list of the i-th leg passed to the call.
Written(i) == store[Len(store) - Len(new_flights) + i]

\* The legs of existing_data with the identity key of leg.
SameKey(leg) ==
    {j \in 1..Len(existing_data) :
        Key(existing_data[j]) = Key(leg) /\ existing_data[j].julian_date # <<>>}

\* The decoder's fields of a leg.
Decoded(leg) ==
    <<leg.origin, leg.destination, leg.carrier, leg.cabin, leg.seat_number,
      leg.sequence_number, leg.ticket_number, leg.frequent_flyer_airline,
      leg.frequent_flyer_number>>

\* What names a decoded leg, whatever the merge does to it.
Named(leg) ==
    <<leg.source_file, leg.passenger_name, leg.confirmation_number,
      leg.flight_number, leg.julian_date, leg.sequence_number>>

UserOwned ==
    {"flightera_link", "scheduled_departure_time", "scheduled_departure_date",
     "actual_departure_time", "scheduled_arrival_time", "actual_arrival_time"}

\* C2: the written list starts with the persisted legs whose source_file is
\* not in the reprocessed set, each unchanged and in the persisted order,
\* and goes on with the fresh legs in the order they were passed.
C2_PreservedThenFresh ==
    called =>
        LET kept == SelectSeq(existing_data,
                        LAMBDA leg : leg.source_file \notin processed_files_list)
        IN  /\ Len(store) = Len(kept) + Len(new_flights)
            /\ SubSeq(store, 1, Len(kept)) = kept
            /\ \A i \in 1..Len(new_flights) :
                  Named(store[Len(kept) + i]) = Named(new_flights[i])

\* C2 happens: two legs are carried forward, one is dropped, one is fresh.
C2_Witness ==
    /\ called
    /\ Len(new_flights) >= 1
    /\ Len(store) - Len(new_flights) >= 2
    /\ Len(existing_data) > Len(store) - Len(new_flights)

\* C3: in the written list every leg of a reprocessed source stands among
\* the fresh legs of the call; no persisted leg of such a source is left.
C3_ReprocessedDropped ==
    called =>
        \A i \in 1..Len(store) :
            store[i].source_file \in processed_files_list
                => i > Len(store) - Len(new_flights)

\* C3 happens: a persisted leg of a reprocessed source was dropped and a
\* persisted leg of another source was kept.
C3_Witness ==
    /\ called
    /\ \E j \in 1..Len(existing_data) :
          existing_data[j].source_file \in processed_files_list
    /\ Len(store) > Len(new_flights)

\* C4: a fresh leg that has the identity key of a persisted leg is written
\* with the decoder's fields as freshly decoded.
C4_FreshDecodeWins ==
    called =>
        \A i \in 1..Len(new_flights) :
            SameKey(new_flights[i]) # {}
                => Decoded(Written(i)) = Decoded(new_flights[i])

\* C4 happens: the persisted leg with the fresh leg's key holds another
\* carrier, origin or seat.
C4_Witness ==
    /\ called
    /\ \E i \in 1..Len(new_flights) : \E j \in SameKey(new_flights[i]) :
          /\ existing_data[j].carrier # new_flights[i].carrier
          /\ existing_data[j].origin # new_flights[i].origin
    /\ \E i \in 1..Len(new_flights) : \E j \in SameKey(new_flights[i]) :
          existing_data[j].seat_number # new_flights[i].seat_number

\* The persisted leg a fresh leg is matched with: the last one stored under
\* its identity key.
Matched(leg) == existing_data[CHOOSE j \in SameKey(leg) : \A k \in SameKey(leg) : k <= j]

LegsOf(flights, f) == SelectSeq(flights, LAMBDA leg : leg.source_file = f)

\* The new leg carries the user's values of the old one: the skip-lag flag,
\* and every link or time the old one holds.
Carries(old, new) ==
    /\ new.is_skiplagged = old.is_skiplagged
    /\ \A field \in UserOwned : Truthy(old[field]) => new[field] = old[field]

\* A step is a scan run, Main(scanned'), exactly when it leaves a day in
\* last_run_day and does not move the clock: a dashboard request leaves -1
\* there and Tick moves the clock.
ScanStep == last_run_day' # -1 /\ today' = today

\* C1: a scan run over an image that holds what it held at the last scan
\* leaves, for each stored leg of that image, a leg that carries the
\* user-owned values stored before the run, whatever requests the dashboard
\* served in between.
C1_EditsSurviveRescan ==
    [][ScanStep =>
        \A f \in processed_files(scanned') :
            (scanned'[f] = scanned[f] /\ scanned[f] # "bad") =>
                /\ Len(LegsOf(store', f)) = Len(LegsOf(store, f))
                /\ \A n \in 1..Len(LegsOf(store, f)) :
                      Carries(LegsOf(store, f)[n], LegsOf(store', f)[n])]_vars

\* C5: a scan run over the directory of the last run, on the store that run
\* wrote, writes the same store, on the same or a later day.
C5_RescanIdempotent ==
    [][(ScanStep /\ last_run_day # -1 /\ scanned' = scanned) => store' = store]_vars

\* C5 happens: the last run repeated an unchanged run on a later day, and
\* the decoder now resolves another date than the one stored.
C5_Witness ==
    /\ rerun
    /\ last_run_day = today.day
    /\ \E i \in 1..Len(store) :
          \E leg \in {all_passes_data(scanned, image_files(scanned), today)[n] :
                        n \in 1..Len(all_passes_data(scanned, image_files(scanned), today))} :
              /\ Named(leg) = Named(store[i])
              /\ Truthy(leg.scheduled_departure_time)
              /\ leg.scheduled_departure_time # store[i].scheduled_departure_time

\* C6: a scan run writes is_skiplagged = true for every fresh leg that has
\* the identity key of a stored leg with is_skiplagged = true.
C6_SkiplagKept ==
    [][ScanStep =>
        LET fresh == all_passes_data(scanned', image_files(scanned'), today)
        IN  \A i \in 1..Len(fresh), j \in 1..Len(store) :
                (Key(store[j]) = Key(fresh[i]) /\ store[j].is_skiplagged
                    /\ ~fresh[i].is_skiplagged)
                => store'[Len(store') - Len(fresh) + i].is_skiplagged]_vars

Manual(flights) == LegsOf(flights, "Manual Entry")

\* C9: a scan run leaves the legs add_flight stored in the store, unchanged
\* and in their order.
C9_ManualEntriesKept ==
    [][ScanStep => Manual(store') = Manual(store)]_vars

\* C9 happens: a scan run that found legs has run on a store that holds a
\* manual entry.
C9_Witness ==
    /\ last_run_day # -1
    /\ Manual(store) # <<>>
    /\ Len(store) > Len(Manual(store))

(***************************************************************************)
(* Two writers of boarding_passes.json at once: scan runs (reader.py is a  *)
(* script, started as often as the user likes) and dashboard requests      *)
(* (app.py serves each request on its own thread).  Every writer loads the *)
(* list (json.load), computes its result and saves it (json.dump); nothing *)
(* in reader.py or app.py locks the file between the two steps.            *)
(***************************************************************************)
Writers == {1, 2}

NoId == <<<<>>, <<>>, Unknown>>

Request(kind, id, update_data, new_flight_data) ==
    [kind |-> kind, id |-> id, update_data |-> update_data,
     new_flight_data |-> new_flight_data]

AnyAdd == CHOOSE new_flight_data \in AddRequests : TRUE

\* What a writer can be asked to do to the list flights.
Requests(flights) ==
    {Request("main", NoId, NoUpdate, AnyAdd)}
    \cup {Request("add_flight", NoId, NoUpdate, new_flight_data) :
            new_flight_data \in AddRequests}
    \cup {Request("toggle_skiplag", flight_id(flights[i]), NoUpdate, AnyAdd) :
            i \in 1..Len(flights)}
    \cup {Request("update_flight", flight_id(flights[i]), update_data, AnyAdd) :
            i \in 1..Len(flights), update_data \in {AllSet, CodesSet}}

\* The list a writer saves when it loaded flights; a request for a flight
\* that is not in the list, and a scan of an empty directory, save nothing.
Result(req, flights, dir, now) ==
    CASE req.kind = "main" ->
            IF image_files(dir) = <<>> THEN flights ELSE main(flights, dir, now)
      [] req.kind = "add_flight" -> add_flight(flights, req.new_flight_data)
      [] req.kind = "toggle_skiplag" ->
            IF FindFlight(flights, req.id) = 0 THEN flights
            ELSE toggle_skiplag(flights, req.id)
      [] req.kind = "update_flight" ->
            IF FindFlight(flights, req.id) = 0 THEN flights
            ELSE update_flight(flights, req.id, req.update_data)

\* The directories of the concurrent runs: one pass, or two passes of two
\* bookings.
ConcDirectories ==
    {[NoDirectory EXCEPT !["a.png"] = "P1"],
     [NoDirectory EXCEPT !["a.png"] = "P2", !["b.jpg"] = "P3"]}

InitConc ==
    /\ scanned \in ConcDirectories
    /\ store \in {<<>>, main(<<>>, scanned, FirstDay)}
    /\ initial_store = store
    /\ today = FirstDay
    /\ edits = 0
    /\ last_run_day = -1
    /\ rerun = FALSE
    /\ existing_data = <<>>
    /\ new_flights = <<>>
    /\ processed_files_list = {}
    /\ called = FALSE
    /\ all_flights = <<>>
    /\ sorted_flights = <<>>
    /\ chained = FALSE
    /\ pc = [w \in Writers |-> "idle"]
    /\ loaded = [w \in Writers |-> <<>>]
    /\ request = [w \in Writers |-> Request("main", NoId, NoUpdate, AnyAdd)]
    /\ IdleDecoder

\* reader.py lines 349-355, app.py line 33: the writer reads the file.  The
\* handlers return without writing when they do not find the flight.
Load(w, req) ==
    /\ pc[w] = "idle"
    /\ req.kind \in {"toggle_skiplag", "update_flight"} => FindFlight(store, req.id) # 0
    /\ pc' = [pc EXCEPT ![w] = "loaded"]
    /\ loaded' = [loaded EXCEPT ![w] = store]
    /\ request' = [request EXCEPT ![w] = req]
    /\ UNCHANGED <<store, today, edits, scanned, last_run_day, rerun, existing_data,
                   new_flights, processed_files_list, called, all_flights,
                   sorted_flights, chained, initial_store,
          data_string, outcome, day_code, resolved>>

\* reader.py lines 404-405, app.py lines 38-39: the writer writes the file.
Save(w) ==
    /\ pc[w] = "loaded"
    /\ store' = Result(request[w], loaded[w], scanned, today)
    /\ pc' = [pc EXCEPT ![w] = "done"]
    /\ UNCHANGED <<today, edits, scanned, last_run_day, rerun, existing_data,
                   new_flights, processed_files_list, called, all_flights,
                   sorted_flights, chained, loaded, request, initial_store,
          data_string, outcome, day_code, resolved>>

LoadStep == \E w \in Writers : \E req \in Requests(store) : Load(w, req)
SaveStep == \E w \in Writers : Save(w)

NextConc == LoadStep \/ SaveStep

SpecConc == InitConc /\ [][NextConc]_vars

\* C8: load, reconcile and save of one writer exclude the other writer, so
\* when both writers are done the store is what the two requests give one
\* after the other, in one of the two orders: no writer's update is lost.
C8_NoLostUpdate ==
    (\A w \in Writers : pc[w] = "done") =>
        \E first \in Writers : \E second \in Writers \ {first} :
            store = Result(request[second],
                        Result(request[first], initial_store, scanned, today),
                        scanned, today)

(***************************************************************************)
(* The chaining step on its own: any list of one to MaxChain legs over     *)
(* four airports, legs that start where they end and equal legs included.  *)
(***************************************************************************)
LAX == <<"L", "A", "X">>

Airports == {SFO, JFK, TLV, LAX}

Routes == {[origin |-> o, destination |-> d] : o \in Airports, d \in Airports}

InitChain ==
    /\ all_flights \in SeqsUpTo(Routes, MaxChain) \ {<<>>}
    /\ sorted_flights = <<>>
    /\ chained = FALSE
    /\ store = <<>>
    /\ IdleTracker
    /\ existing_data = <<>>
    /\ new_flights = <<>>
    /\ processed_files_list = {}
    /\ called = FALSE
    /\ pc = <<>>
    /\ loaded = <<>>
    /\ request = <<>>
    /\ initial_store = <<>>
    /\ IdleDecoder

\* Lines 133-174 of parse_boarding_pass.
Chain ==
    /\ ~chained
    /\ sorted_flights' = SortFlights(all_flights)
    /\ chained' = TRUE
    /\ UNCHANGED <<store, today, edits, scanned, last_run_day, rerun, existing_data,
                   new_flights, processed_files_list, called, all_flights, pc,
                   loaded, request, initial_store,
          data_string, outcome, day_code, resolved>>

NextChain == Chain

SpecChain == InitChain /\ [][NextChain]_vars

\* How often leg stands in flights.
Count(flights, leg) == Cardinality({i \in 1..Len(flights) : flights[i] = leg})

\* C10: the chaining step returns, for every list of at least one leg, the
\* same legs as a multiset: as many legs, and each leg as often as given.
\* (It returns for every list: list.remove is given a leg of the list,
\* remaining[0] is read from a list of at least two legs.)
C10_SameLegs ==
    chained =>
        /\ Len(sorted_flights) = Len(all_flights)
        /\ \A leg \in Routes : Count(sorted_flights, leg) = Count(all_flights, leg)

\* C10 happens: legs were moved, for a list with two equal legs and for a
\* list where linking stopped with legs left.
C10_Witness ==
    /\ chained
    /\ sorted_flights # all_flights
    /\ \E i, j \in 1..Len(all_flights) : i # j /\ all_flights[i] = all_flights[j]
    /\ \E i \in 1..Len(sorted_flights) - 1 :
          sorted_flights[i].destination # sorted_flights[i + 1].origin
\* Each leg ends where the next one starts.
Linked(flights) ==
    \A i \in 1..Len(flights) - 1 : flights[i].destination = flights[i + 1].origin

\* The orders in which n legs can stand.
Orders(n) == {p \in [1..n -> 1..n] : \A i, j \in 1..n : p[i] = p[j] => i = j}

\* The legs form a simple path: no airport starts two legs or ends two legs,
\* and in some order the legs connect end to end from an airport that no leg
\* arrives at.
SimplePath(flights) ==
    /\ \A i, j \in 1..Len(flights) :
          i # j => /\ flights[i].origin # flights[j].origin
                   /\ flights[i].destination # flights[j].destination
    /\ \E p \in Orders(Len(flights)) :
          /\ Linked([i \in 1..Len(flights) |-> flights[p[i]]])
          /\ \A i \in 1..Len(flights) : flights[p[1]].origin # flights[i].destination

\* C11: legs that form a simple path are returned in travel order, in
\* whatever order they were encoded: each leg's destination is the next
\* leg's origin.
C11_TravelOrder ==
    (chained /\ SimplePath(all_flights)) => Linked(sorted_flights)

\* C11 happens: a path of three legs was encoded out of travel order, its
\* first leg not first.
C11_Witness ==
    /\ chained
    /\ SimplePath(all_flights)
    /\ Len(all_flights) >= 3
    /\ ~Linked(all_flights)
    /\ StartIndex(all_flights) # 1

\* The flags the claim C12 gives a chaining of flights.
StatusFlags(flights) ==
    LET found == \E i \in 1..Len(flights) : \A j \in 1..Len(flights) :
                    flights[i].origin # flights[j].destination
    IN  (IF found /\ Linked(SortFlights(flights)) THEN {"ChainOk"} ELSE {})
        \cup (IF ~found THEN {"ChainAmbiguous"} ELSE {})
        \cup (IF ~Linked(SortFlights(flights)) THEN {"ChainIncomplete"} ELSE {})

\* C12: the result of the chaining step carries a status flag: ChainOk when
\* a start leg was found and every leg was linked, ChainAmbiguous when every
\* origin is some leg's destination, ChainIncomplete when linking stopped
\* with legs remaining.
C12_StatusFlag ==
    chained => status_flag(sorted_flights) \in StatusFlags(all_flights)

(***************************************************************************)
(* The date resolver on its own, lines 58-66: every day-of-year code on    *)
(* reference dates in 2023 (after a year of 365 days), 2024 (a leap year)  *)
(* and 2025 (after a leap year), at midnight and later in the day.         *)
(***************************************************************************)
\* 1 and 10 January, 1 July, 1 August and 30 December of a year of 365 days.
ReferenceDates ==
    {Now(Jan1(y) + d, late) :
        y \in {2023, 2024, 2025}, d \in {0, 9, 181, 212, 363}, late \in BOOLEAN}

InitResolve ==
    /\ day_code \in 1..366
    /\ today \in ReferenceDates
    /\ resolved = NotResolved
    /\ data_string = <<>>
    /\ outcome = Pending
    /\ store = <<>>
    /\ edits = 0
    /\ scanned = NoDirectory
    /\ last_run_day = -1
    /\ rerun = FALSE
    /\ existing_data = <<>>
    /\ new_flights = <<>>
    /\ processed_files_list = {}
    /\ called = FALSE
    /\ all_flights = <<>>
    /\ sorted_flights = <<>>
    /\ chained = FALSE
    /\ pc = <<>>
    /\ loaded = <<>>
    /\ request = <<>>
    /\ initial_store = <<>>

others_resolve == <<existing_data, new_flights, processed_files_list, called,
                    all_flights, sorted_flights, chained, pc, loaded, request,
                    initial_store, data_string, outcome, day_code>>

\* Lines 58-66 for the code day_code at the time today.
Resolve ==
    /\ ~resolved.done
    /\ resolved' = [done |-> TRUE, day |-> departure_date(day_code, today)]
    /\ UNCHANGED <<store, today, edits, scanned, last_run_day, rerun, others_resolve>>

NextResolve == Resolve

SpecResolve == InitResolve /\ [][NextResolve]_vars

\* The resolved year is the reference year, the year before or the year after.
YearNear == YearOf(resolved.day) - YearOf(today.day) \in {-1, 0, 1}

\* C13 as claimed: for every code 001..366 and every reference date the
\* resolved date's day of the year is the code and its year is at most one
\* from the reference year.
C13_DayAndYear ==
    resolved.done => (DayOfYear(resolved.day) = day_code /\ YearNear)

\* C13 amended: the day of the year is the code for the codes 001..365; for
\* 366 it is 366, or the date is 1 January after a year of 365 days; the
\* year is at most one from the reference year.
C13_DayInYear ==
    resolved.done =>
        /\ YearNear
        /\ day_code <= 365 => DayOfYear(resolved.day) = day_code
        /\ day_code = 366 =>
              \/ DayOfYear(resolved.day) = 366
              \/ /\ DayOfYear(resolved.day) = 1
                 /\ ~IsLeap(YearOf(resolved.day) - 1)

\* C13 happens: a code was resolved into the year before the reference year,
\* a leap year while the reference year is none.
C13_Witness ==
    /\ resolved.done
    /\ YearOf(resolved.day) = YearOf(today.day) - 1
    /\ IsLeap(YearOf(resolved.day))
    /\ day_code > 300

(***************************************************************************)
(* parse_boarding_pass on its own: texts of every length from the empty    *)
(* text to a whole pass, texts with a character changed, decoded at        *)
(* several times of several days.                                          *)
(***************************************************************************)
\* The texts a reader can cut a text short to.
Prefixes(s) == {SubSeq(s, 1, n) : n \in 0..Len(s)}

\* RawP1 and RawP2 with one field changed: a leg count that is no digit, a
\* seat row, a sequence number and a day code that hold a letter, the day
\* codes 000, 366 and 400, a leg that ends where it starts.
Changed ==
    {[RawP1 EXCEPT ![49] = "X"],
     [RawP1 EXCEPT ![55] = "X"],
     [RawP1 EXCEPT ![46] = "X"],
     [RawP1 EXCEPT ![45] = "0", ![46] = "0", ![47] = "0"],
     [RawP1 EXCEPT ![45] = "3", ![46] = "6", ![47] = "6"],
     [RawP1 EXCEPT ![45] = "4", ![46] = "0", ![47] = "0"],
     [RawP1 EXCEPT ![34] = "S", ![35] = "F", ![36] = "O"],
     [RawP2 EXCEPT ![2] = "X"],
     [RawP2 EXCEPT ![46] = "X"],
     [RawP2 EXCEPT ![73] = "X"],
     [RawP2 EXCEPT ![76] = "X"],
     [RawP2 EXCEPT ![48] = "Q"]}

\* The texts the decoder is given.
DataStrings ==
    Prefixes(RawP1) \cup Prefixes([RawP1 EXCEPT ![2] = "X"]) \cup Prefixes(RawShort)
    \cup {RawP2} \cup Changed

\* The times of the decodes: 2 January 2024 at midnight and later that day,
\* 181 days before day 183 of 2024, and 10 January 2025.
DecodeTimes ==
    {Now(Jan1(2024) + 1, FALSE), Now(Jan1(2024) + 1, TRUE), Now(Jan1(2025) + 9, TRUE)}

InitDecode ==
    /\ data_string \in DataStrings
    /\ today \in DecodeTimes
    /\ outcome = Pending
    /\ day_code = 0
    /\ resolved = NotResolved
    /\ store = <<>>
    /\ edits = 0
    /\ scanned = NoDirectory
    /\ last_run_day = -1
    /\ rerun = FALSE
    /\ existing_data = <<>>
    /\ new_flights = <<>>
    /\ processed_files_list = {}
    /\ called = FALSE
    /\ all_flights = <<>>
    /\ sorted_flights = <<>>
    /\ chained = FALSE
    /\ pc = <<>>
    /\ loaded = <<>>
    /\ request = <<>>
    /\ initial_store = <<>>

\* parse_boarding_pass(data_string) at the time now.
Decode(now) ==
    /\ today' = now
    /\ outcome' = decode(data_string, now)
    /\ UNCHANGED <<store, edits, scanned, last_run_day, rerun, existing_data,
                   new_flights, processed_files_list, called, all_flights,
                   sorted_flights, chained, pc, loaded, request, initial_store,
                   data_string, day_code, resolved>>

NextDecode == \E now \in DecodeTimes : Decode(now)

SpecDecode == InitDecode /\ [][NextDecode]_vars

\* The matches of leg_pattern in data_string.
LegBlocks == finditer(data_string, 1)

\* parse_boarding_pass was called.
Done == outcome.kind # "pending"

\* C14: two decodes of one text on one reference date give the same legs,
\* at whatever time of the day each of them runs.
C14_SameDateSameLegs ==
    [][(Done /\ today'.day = today.day) => outcome' = outcome]_vars

\* C15: a text of fewer than 29 characters, and a text whose leg count (the
\* second character) is no digit, raises the header failure and gives no
\* legs.
C15_HeaderFailure ==
    (Done /\ (Len(data_string) < 29 \/ ~IsDigit(data_string[2])))
        => outcome = Failure("header")

\* The leg of the result decoded from the match block.
LegOf(block, flights) ==
    {j \in 1..Len(flights) :
        /\ flights[j].origin = block.origin
        /\ flights[j].destination = block.destination
        /\ flights[j].carrier = block.carrier
        /\ flights[j].flight_number = LStripZeros(block.flight_number_str)
        /\ flights[j].julian_date = SubSeq(block.details_block, 1, 3)
        /\ flights[j].cabin = cabin_map(block.details_block[4])
        /\ flights[j].sequence_number = IntOf(SubSeq(block.details_block, 9, 12))}

\* The seat row or the sequence number of the match is no number.
BadNumber(block) ==
    \/ ~AllDigits(SubSeq(block.details_block, 5, 7))
    \/ ~AllDigits(SubSeq(block.details_block, 9, 12))

SomeBadNumber == \E i \in 1..Len(LegBlocks) : BadNumber(LegBlocks[i])

\* C16: parse_boarding_pass raises and gives nothing, or returns a list that
\* is not empty and holds one leg for every match of the leg pattern; it
\* raises when nothing matches and when a seat row or a sequence number of
\* any match is no number.
C16_AllOrNothing ==
    Done =>
        IF outcome.kind = "legs"
        THEN /\ ~HeaderRaises(data_string)
             /\ Len(outcome.flights) >= 1
             /\ Len(outcome.flights) = Len(LegBlocks)
             /\ ~SomeBadNumber
             /\ \A i \in 1..Len(LegBlocks) : LegOf(LegBlocks[i], outcome.flights) # {}
        ELSE outcome.flights = <<>>

\* C16 happens: of two matched legs one holds a seat row that is no number,
\* and the decode gave no leg.
C16_Witness ==
    /\ Done
    /\ ~HeaderRaises(data_string)
    /\ Len(LegBlocks) = 2
    /\ SomeBadNumber
    /\ ~BadNumber(LegBlocks[1])
    /\ outcome = Failure("leg")

\* The five date and time fields of a leg.
Times(leg) ==
    <<leg.scheduled_departure_date, leg.scheduled_departure_time,
      leg.scheduled_arrival_time, leg.actual_departure_time, leg.actual_arrival_time>>

\* C18: a match whose day-of-year field is no integer still gives its leg,
\* with the other fields as decoded and the date and the times null, and
\* the other matches of the text give their legs.
C18_BadDayCodeKept ==
    (Done /\ ~HeaderRaises(data_string) /\ LegBlocks # <<>> /\ ~SomeBadNumber) =>
        /\ outcome.kind = "legs"
        /\ Len(outcome.flights) = Len(LegBlocks)
        /\ \A i \in 1..Len(LegBlocks) :
              /\ LegOf(LegBlocks[i], outcome.flights) # {}
              /\ ~AllDigits(SubSeq(LegBlocks[i].details_block, 1, 3)) =>
                    \A j \in LegOf(LegBlocks[i], outcome.flights) :
                        Times(outcome.flights[j]) = <<Null, Null, Null, Null, Null>>

\* C18 happens: of two legs decoded one has a day code that is no integer
\* and the other has its date.
C18_Witness ==
    /\ outcome.kind = "legs"
    /\ Len(outcome.flights) = 2
    /\ \E i \in 1..2 : ~AllDigits(outcome.flights[i].julian_date)
    /\ \E i \in 1..2 : outcome.flights[i].scheduled_departure_date.k = "date"

\* C19: every leg parse_boarding_pass returns has an origin other than its
\* destination, a day code of three digits in 001..366 and a sequence number
\* that is not negative.
C19_LegInvariant ==
    outcome.kind = "legs" =>
        \A i \in 1..Len(outcome.flights) :
            LET leg == outcome.flights[i]
            IN  /\ leg.origin # leg.destination
                /\ Len(leg.julian_date) = 3
                /\ AllDigits(leg.julian_date)
                /\ IntOf(leg.julian_date) \in 1..366
                /\ leg.sequence_number >= 0

\* C20: the leg of a barcode that gave no time of day does not hold what a
\* leg leaving at 00:00 of the resolved date holds.  (The decoder reads no
\* time of day from any barcode.)
C20_NoTimeIsNotMidnight ==
    outcome.kind = "legs" =>
        \A i \in 1..Len(outcome.flights) :
            LET leg == outcome.flights[i]
            IN  leg.scheduled_departure_date.k = "date" =>
                    leg.scheduled_departure_time
                        # IsoDateTime(leg.scheduled_departure_date.d, 0)

(***************************************************************************)
(* Scan runs over directories in which an image can fail: it cannot be     *)
(* read or shows no barcode ("bad"), or parse_boarding_pass raises on its  *)
(* text ("P4", "P5").                                                      *)
(***************************************************************************)
ScanDirectories ==
    {[f \in {"a.png", "b.jpg"} |-> IF f = "a.png" THEN a ELSE b] :
        a \in {"none", "bad", "P1", "P2", "P4", "P5"},
        b \in {"none", "bad", "P3", "P4", "P5"}}

ScanAny == \E dir \in ScanDirectories : Main(dir)

NextScan == ScanAny \/ Tick

SpecScan == Init /\ [][NextScan]_vars

\* The images of the directory that give no legs.
Failing(dir) == {f \in processed_files(dir) : process_image(dir, f, FirstDay) = <<>>}

\* C17: a scan run stores, for every image of the directory, the legs that
\* image gives, also when another image of the directory gives none.
C17_SiblingsProcessed ==
    [][ScanStep =>
        \A f \in processed_files(scanned') :
            LET fresh == process_image(scanned', f, today)
                stored == LegsOf(store', f)
            IN  /\ Len(stored) = Len(fresh)
                /\ \A i \in 1..Len(fresh) : Named(stored[i]) = Named(fresh[i])]_vars

\* C17 happens: the first image of the last run failed and the legs of the
\* second image are stored.
C17_Witness ==
    /\ last_run_day # -1
    /\ "a.png" \in Failing(scanned)
    /\ scanned["a.png"] # "bad"
    /\ LegsOf(store, "b.jpg") # <<>>

(***************************************************************************)
(* More on the chaining step (SpecChain).                                  *)
(***************************************************************************)
\* The lists that hold the legs of flights in an order in which each leg
\* ends where the next one starts.
LinkedOrders(flights) ==
    {s \in {[i \in 1..Len(flights) |-> flights[p[i]]] : p \in Orders(Len(flights))} :
        Linked(s)}

\* C21: when exactly one ordering of the legs connects every adjacent pair,
\* the chaining step returns that ordering, whatever the encoding order,
\* also when the itinerary comes back to an airport.  (Stated for legs
\* that do not start where they end.)
C21_UniqueOrderReturned ==
    (/\ chained
     /\ \A i \in 1..Len(all_flights) : all_flights[i].origin # all_flights[i].destination
     /\ Cardinality(LinkedOrders(all_flights)) = 1)
        => sorted_flights \in LinkedOrders(all_flights)

\* The first position of flights after which the next leg does not start
\* where the leg ends; 0 when there is none.
FirstBreak(flights) ==
    LET breaks == {i \in 1..Len(flights) - 1 :
                      flights[i].destination # flights[i + 1].origin}
    IN  IF breaks = {} THEN 0 ELSE Min(breaks)

\* C22: when linking stops because no remaining leg leaves from the last
\* destination, the result is the legs linked so far followed by all other
\* legs in their encoding order.
C22_RemainingInEncodingOrder ==
    (chained /\ FirstBreak(sorted_flights) # 0) =>
        \E p \in Orders(Len(all_flights)) :
            /\ \A i \in 1..Len(all_flights) : sorted_flights[i] = all_flights[p[i]]
            /\ \A i, j \in FirstBreak(sorted_flights) + 1..Len(all_flights) :
                  i < j => p[i] < p[j]

\* C22 happens: linking stopped after the start leg, which was not encoded
\* first, and two different legs were left.
C22_Witness ==
    /\ chained
    /\ Len(all_flights) = 3
    /\ FirstBreak(sorted_flights) = 1
    /\ sorted_flights[2] # sorted_flights[3]
    /\ sorted_flights[1] # all_flights[1]
    /\ sorted_flights[1] \notin {sorted_flights[2], sorted_flights[3]}

(***************************************************************************)
(* More on the date resolver (SpecResolve).                                *)
(***************************************************************************)
\* 1 January of the reference year plus the code's days, at 00:00.
NaiveCandidate == Jan1(YearOf(today.day)) + day_code - 1

\* The naive candidate lies more than 180 days after the reference instant:
\* the candidate is a midnight, so with d whole dates between the two the
\* time between them is d days at 00:00:00 and more than d - 1 days later in
\* the day, and it exceeds 180 days exactly when d is 181 or more.
CandidateFarAhead == NaiveCandidate - today.day > RollbackDays

\* C23: the resolved date is 1 January of the year before the reference year
\* plus the code's days exactly when the naive candidate lies more than 180
\* days after the reference instant, and the naive candidate otherwise.
C23_RollbackRule ==
    resolved.done =>
        resolved.day = IF CandidateFarAhead
                       THEN Jan1(YearOf(today.day) - 1) + day_code - 1
                       ELSE NaiveCandidate

(***************************************************************************)
(* More on parse_boarding_pass (SpecDecode).                               *)
(***************************************************************************)
\* The leg holds a ticket number or frequent-flyer data.
HasConditional(leg) ==
    \/ leg.ticket_number # NoText
    \/ leg.frequent_flyer_airline # NoText
    \/ leg.frequent_flyer_number # NoText

\* C24: in the returned list, the ticket number and the frequent-flyer
\* fields stand on the first leg of the itinerary and on no other leg.
C24_ConditionalOnFirstLeg ==
    outcome.kind = "legs" =>
        \A i \in 1..Len(outcome.flights) : HasConditional(outcome.flights[i]) => i = 1

(***************************************************************************)
(* More on update_flight_database (SpecMerge).                             *)
(***************************************************************************)
\* The persisted legs a fresh leg can inherit from: those with a day-of-year
\* code that is not empty and with the fresh leg's confirmation code, flight
\* number and day-of-year code.
Donors(leg) ==
    {j \in 1..Len(existing_data) :
        /\ existing_data[j].julian_date # <<>>
        /\ existing_data[j].confirmation_number = leg.confirmation_number
        /\ existing_data[j].flight_number = leg.flight_number
        /\ existing_data[j].julian_date = leg.julian_date}

\* The last donor in store order.
Donor(leg) == existing_data[CHOOSE j \in Donors(leg) : \A k \in Donors(leg) : k <= j]

\* The fresh leg was written with the user-owned fields of the persisted
\* leg: its skip-lag flag and every link, date or time it holds.
Inherits(written, persisted) ==
    /\ written.is_skiplagged = persisted.is_skiplagged
    /\ \A field \in UserOwned :
          Truthy(persisted[field]) => written[field] = persisted[field]

\* C25: a fresh leg is written as decoded when no persisted leg has its
\* confirmation code, flight number and day-of-year code, and with the
\* user-owned fields of the last such persisted leg otherwise, whatever the
\* carrier, route, resolved date and source_file of that leg.
C25_DonorByKey ==
    called =>
        \A i \in 1..Len(new_flights) :
            IF Donors(new_flights[i]) = {}
            THEN Written(i) = new_flights[i]
            ELSE Inherits(Written(i), Donor(new_flights[i]))

\* C25 happens: two persisted legs have the fresh leg's key and differ in
\* the skip-lag flag; the last of them belongs to another source file that
\* is not reprocessed, and the first to the fresh leg's source with another
\* carrier and origin.
C25_Witness ==
    /\ called
    /\ \E i \in 1..Len(new_flights) : \E j, k \in Donors(new_flights[i]) :
          /\ j < k
          /\ \A l \in Donors(new_flights[i]) : l <= k
          /\ existing_data[j].is_skiplagged # existing_data[k].is_skiplagged
          /\ existing_data[k].source_file # new_flights[i].source_file
          /\ existing_data[k].source_file \notin processed_files_list
          /\ existing_data[j].carrier # new_flights[i].carrier
          /\ existing_data[j].origin # new_flights[i].origin

(***************************************************************************)
(* Scan runs on a store that an earlier run and dashboard request wrote,   *)
(* over directories in which an image can fail.  initial_store keeps the   *)
(* store the runs started from.                                            *)
(***************************************************************************)
\* A store of one persisted leg.
InitRescan ==
    /\ store \in {<<leg>> : leg \in PersistedLegs}
    /\ initial_store = store
    /\ IdleTracker
    /\ existing_data = <<>>
    /\ new_flights = <<>>
    /\ processed_files_list = {}
    /\ called = FALSE
    /\ all_flights = <<>>
    /\ sorted_flights = <<>>
    /\ chained = FALSE
    /\ pc = <<>>
    /\ loaded = <<>>
    /\ request = <<>>
    /\ IdleDecoder

\* The directories of the re-scans: a.png decodes or fails, b.jpg is absent
\* or decodes.
RescanDirectories ==
    {[f \in {"a.png", "b.jpg"} |-> IF f = "a.png" THEN a ELSE b] :
        a \in {"bad", "P1", "P4", "P5"}, b \in {"none", "P3"}}

Rescan == \E dir \in RescanDirectories : Main(dir)

NextRescan == Rescan \/ Tick

SpecRescan == InitRescan /\ [][NextRescan]_vars

\* C26: after a scan run, the store holds no leg of an image file that was
\* found in the directory and gave no legs in this run, whatever legs of
\* that file were stored before.
C26_FailedImageLegsDropped ==
    [][ScanStep =>
        \A f \in {"a.png", "b.jpg"} :
            (scanned'[f] # "none" /\ process_image(scanned', f, today) = <<>>) =>
                \A i \in 1..Len(store') : store'[i].source_file # f]_vars

\* C26 happens: a.png had a stored leg with the skip-lag flag or a link set,
\* the last run found a.png and could not decode it, and the store holds the
\* legs of the other image and none of a.png.
C26_Witness ==
    /\ last_run_day # -1
    /\ scanned["a.png"] \in {"bad", "P4", "P5"}
    /\ \E j \in 1..Len(initial_store) :
          /\ initial_store[j].source_file = "a.png"
          /\ initial_store[j].is_skiplagged \/ Truthy(initial_store[j].flightera_link)
    /\ LegsOf(store, "a.png") = <<>>
    /\ LegsOf(store, "b.jpg") # <<>>

(***************************************************************************)
(* Calls update_flight_database(new_flights) one after another, without a  *)
(* processed_files_list (lines 344-345 make it the empty set), on an empty *)
(* store or on one persisted leg.                                          *)
(***************************************************************************)
InitAppend ==
    /\ store \in {<<>>} \cup {<<leg>> : leg \in PersistedLegs}
    /\ initial_store = store
    /\ IdleTracker
    /\ existing_data = <<>>
    /\ new_flights = <<>>
    /\ processed_files_list = {}
    /\ called = FALSE
    /\ all_flights = <<>>
    /\ sorted_flights = <<>>
    /\ chained = FALSE
    /\ pc = <<>>
    /\ loaded = <<>>
    /\ request = <<>>
    /\ IdleDecoder

\* update_flight_database(new) on the store as it is.
AppendCall(new) ==
    /\ Len(store) + Len(new) <= MaxStore
    /\ store' = update_flight_database(store, new, {})
    /\ existing_data' = store
    /\ new_flights' = new
    /\ processed_files_list' = {}
    /\ called' = TRUE
    /\ UNCHANGED <<today, edits, scanned, last_run_day, rerun, all_flights,
                   sorted_flights, chained, pc, loaded, request, initial_store,
                   data_string, outcome, day_code, resolved>>

NextAppend == \E new \in ScanResults : AppendCall(new)

SpecAppend == InitAppend /\ [][NextAppend]_vars

\* How many legs of flights are named as leg is.
NamedCount(flights, leg) ==
    Cardinality({j \in 1..Len(flights) : Named(flights[j]) = Named(leg)})

C28_DatesStable ==
    [][ScanStep =>
        \A f \in processed_files(scanned') :
            (scanned'[f] = scanned[f] /\ process_image(scanned', f, today) # <<>>) =>
                \A n \in 1..Len(LegsOf(store, f)) :
                    LET old == LegsOf(store, f)[n]
                    IN  (/\ Truthy(old.scheduled_departure_date)
                         /\ old.scheduled_departure_time
                               = IsoDateTime(old.scheduled_departure_date.d, 0)
                         /\ n <= Len(LegsOf(store', f))) =>
                            /\ LegsOf(store', f)[n].scheduled_departure_date
                                  = old.scheduled_departure_date
                            /\ LegsOf(store', f)[n].scheduled_departure_time
                                  = old.scheduled_departure_time]_vars

====
